---- MODULE Spec2Model ----
(***************************************************************************)
(* ImprovementEmitter (ribs/emitters/_improvement_emitter.py): the         *)
(* constructor, ask() and tell(), with the Archive and the CMA-ES          *)
(* Optimizer as collaborators whose answers are inputs of the actions.     *)
(*                                                                         *)
(* Two emitter objects exist.  Under Spec only emitter 1 is constructed    *)
(* and driven; under PairSpec both are driven in lockstep against the same *)
(* archive answers, which is the setting of the reproducibility property.  *)
(***************************************************************************)
EXTENDS Integers, Sequences, FiniteSets, TLC

\* ---------------------------------------------------------------- bounds
\* Largest batch size a caller requests or the Optimizer reports.
MaxBatch == 2
\* Improvement values returned by Archive.add range over 0..MaxValue.
MaxValue == 1
\* Seeds passed to the constructor range over None and 0..MaxSeed.
MaxSeed == 0
\* tell() is not explored further once an emitter restarted this often.
MaxRestarts == 2

\* ------------------------------------------------------------- constants
\* Python's None: where a string, an integer or an exception is expected.
None == "None"
NoneInt == -1
NoError == <<>>
Emitters == {1, 2}

\* ribs.archives.AddStatus, an IntEnum.
AddStatus == ("NOT_ADDED" :> 0) @@ ("IMPROVE_EXISTING" :> 1) @@ ("NEW" :> 2)

Statuses == {AddStatus["NOT_ADDED"], AddStatus["IMPROVE_EXISTING"], AddStatus["NEW"]}
Values == 0..MaxValue
\* What Archive.add returns: (status, value, entry).
AddResults == [status : Statuses, value : Values]

\* The rule strings a caller may pass; "bogus" stands for any other string.
SelectionRules == {"mu", "filter", "bogus"}
RestartRules == {"basic", "no_improvement", "bogus"}
BatchSizes == 1..MaxBatch
Seeds == 0..MaxSeed
CtorArgs ==
    [selection_rule : SelectionRules, restart_rule : RestartRules,
     batch_size : BatchSizes \cup {NoneInt}, seed : Seeds \cup {NoneInt}]

\* x0 and sigma0 of the constructor call, and the elites of the archive.
X0 == "x0"
Sigma0 == "sigma0"
EliteSolutions == {"elite_a", "elite_b"}
\* Archive.get_random_elite returns (solution, objective, behavior, ...).
Elites == {<<s, "obj", "beh">> : s \in EliteSolutions}

\* ------------------------------------------------------------ variables
VARIABLES
    pc,       \* per emitter: "unbuilt", "ready" or "failed" (constructor raised)
    self,     \* per emitter: the fields of the ImprovementEmitter object
    opt,      \* per emitter: self.opt, the CMAEvolutionStrategy object
    last,     \* per emitter: the last call on it and what it did
    ctor,     \* per emitter: the arguments its constructor was called with
    outstanding,  \* per emitter: ask() calls minus tell() calls (ProtocolSpec)
    twin      \* the two optimizers are seeded alike and were called alike

vars == <<pc, self, opt, last, ctor, outstanding, twin>>

\* ------------------------------------------------------- object contents
NoSelf ==
    [_batch_size |-> NoneInt, _x0 |-> None, _sigma0 |-> None,
     _selection_rule |-> None, _restart_rule |-> None,
     _num_parents |-> NoneInt, _restarts |-> NoneInt, seed |-> NoneInt]

NoOpt == [built |-> FALSE, seed |-> NoneInt, batch_size |-> NoneInt, mean |-> None]

NoLens ==
    [solutions |-> 0, objective_values |-> 0, behavior_values |-> 0,
     metadata |-> NoneInt]

NoArgs ==
    [selection_rule |-> None, restart_rule |-> None, batch_size |-> NoneInt,
     seed |-> NoneInt]

NoLast ==
    [op |-> "none", raised |-> NoError, calls |-> <<>>, returned |-> <<>>,
     lens |-> NoLens, records |-> <<>>, ranking_data |-> <<>>, indices |-> <<>>,
     new_sols |-> 0, num_parents |-> NoneInt, stop |-> FALSE, restarted |-> FALSE]

Call(fn, arg) == [fn |-> fn, arg |-> arg]

\* ------------------------------------------------------------- __init__
\* self._rng = default_rng(seed); self._rng.integers(10_000): the first draw
\* of a generator is a fixed function of its seed, with values in 0..9999.
RngIntegers(seed) == (seed * 7919 + 4241) % 10000

\* opt_seed = None if seed is None else self._rng.integers(10_000)
OptSeedUnseeded(seed) == NoneInt
OptSeed(seed) == IF seed = NoneInt THEN NoneInt ELSE RngIntegers(seed)

\* The two membership tests of the constructor; the message of the
\* ValueError is "Invalid <field> <value>", kept as its three words.
ValidateSelectionOnly(selection_rule, restart_rule) ==
    IF selection_rule \notin {"mu", "filter"}
    THEN <<"Invalid", "selection_rule", selection_rule>>
    ELSE NoError
Validate(selection_rule, restart_rule) ==
    IF selection_rule \notin {"mu", "filter"}
    THEN <<"Invalid", "selection_rule", selection_rule>>
    ELSE IF restart_rule \notin {"basic", "no_improvement"}
         THEN <<"Invalid", "restart_rule", restart_rule>>
         ELSE NoError

\* CMAEvolutionStrategy(sigma0, batch_size, ...).batch_size: the requested
\* size, or the Optimizer's own default (reported) when none was requested.
OptBatchSize(batch_size, reported) ==
    IF batch_size = NoneInt THEN reported ELSE batch_size

\* self._num_parents = opt.batch_size // 2 if selection_rule == "mu" else None
InitNumParentsWhole(selection_rule, batch_size) ==
    IF selection_rule = "mu" THEN batch_size ELSE NoneInt
InitNumParents(selection_rule, batch_size) ==
    IF selection_rule = "mu" THEN batch_size \div 2 ELSE NoneInt

\* self._batch_size = self.opt.batch_size (line 90 overwrites line 65).
EffectiveBatchSizeRequested(batch_size, opt_batch_size) == batch_size
EffectiveBatchSize(batch_size, opt_batch_size) == opt_batch_size

\* The whole constructor: the objects and the record of the call.
EmitterInit(args, reported) ==
    LET err == Validate(args.selection_rule, args.restart_rule)
        obs == OptBatchSize(args.batch_size, reported)
        o == [built |-> TRUE, seed |-> OptSeed(args.seed),
              batch_size |-> obs, mean |-> X0]
    IN  IF err # NoError
        THEN [pc |-> "failed", self |-> NoSelf, opt |-> NoOpt,
              last |-> [NoLast EXCEPT !.op = "__init__", !.raised = err]]
        ELSE [pc |-> "ready",
              self |-> [_batch_size |-> EffectiveBatchSize(args.batch_size, obs),
                        _x0 |-> X0, _sigma0 |-> Sigma0,
                        _selection_rule |-> args.selection_rule,
                        _restart_rule |-> args.restart_rule,
                        _num_parents |-> InitNumParents(args.selection_rule, obs),
                        _restarts |-> 0, seed |-> args.seed],
              opt |-> o,
              last |-> [NoLast EXCEPT
                          !.op = "__init__",
                          !.calls = <<Call("CMAEvolutionStrategy", o.seed),
                                      Call("opt.reset", X0)>>]]

\* ------------------------------------------------------------------ ask
\* Optimizer.ask returns opt.batch_size samples; sample j is named j.
OptAsk(o) == [j \in 1..o.batch_size |-> j]

\* ask(): return self.opt.ask(self.lower_bounds, self.upper_bounds)
EmitterAskCounting(s, o) ==
    [pc |-> "ready", self |-> [s EXCEPT !._restarts = @ + 1], opt |-> o,
     last |-> [NoLast EXCEPT !.op = "ask",
                             !.calls = <<Call("opt.ask", "bounds")>>,
                             !.returned = OptAsk(o)]]
EmitterAsk(s, o) ==
    [pc |-> "ready", self |-> s, opt |-> o,
     last |-> [NoLast EXCEPT !.op = "ask",
                             !.calls = <<Call("opt.ask", "bounds")>>,
                             !.returned = OptAsk(o)]]

\* ----------------------------------------------------------------- tell
Min(a, b) == IF a <= b THEN a ELSE b

\* zip(solutions, objective_values, behavior_values, metadata) stops at the
\* shortest; metadata None is itertools.repeat(None), which never ends.
ZipLenSolutions(lens) == lens.solutions
ZipLen(lens) ==
    LET m == Min(lens.solutions, Min(lens.objective_values, lens.behavior_values))
    IN  IF lens.metadata = NoneInt THEN m ELSE Min(m, lens.metadata)

\* Python's order on the tuples (status, value, i).
TupleLess(a, b) ==
    \/ a[1] < b[1]
    \/ a[1] = b[1] /\ a[2] < b[2]
    \/ a[1] = b[1] /\ a[2] = b[2] /\ a[3] < b[3]

RECURSIVE InsertAsc(_, _)
InsertAsc(x, s) ==
    IF s = <<>> THEN <<x>>
    ELSE IF TupleLess(x, Head(s)) THEN <<x>> \o s
         ELSE <<Head(s)>> \o InsertAsc(x, Tail(s))

RECURSIVE SortForward(_)
SortForward(s) ==
    IF s = <<>> THEN <<>>
    ELSE InsertAsc(s[Len(s)], SortForward(SubSeq(s, 1, Len(s) - 1)))

\* x goes in front of the first element smaller than it: equal elements
\* keep their order, as list.sort keeps them also with reverse=True.
RECURSIVE InsertDesc(_, _)
InsertDesc(x, s) ==
    IF s = <<>> THEN <<x>>
    ELSE IF TupleLess(Head(s), x) THEN <<x>> \o s
         ELSE <<Head(s)>> \o InsertDesc(x, Tail(s))

\* ranking_data.sort(reverse=True)
RECURSIVE SortReverse(_)
SortReverse(s) ==
    IF s = <<>> THEN <<>>
    ELSE InsertDesc(s[Len(s)], SortReverse(SubSeq(s, 1, Len(s) - 1)))

\* status in (AddStatus.NEW, AddStatus.IMPROVE_EXISTING)
IsAddedNewOnly(status) == status = AddStatus["NEW"]
IsAdded(status) == status \in {AddStatus["NEW"], AddStatus["IMPROVE_EXISTING"]}

\* ranking_data.append((status, value, i)) for i = 0, 1, ... in zip order.
RankingRecordsOfAdded(adds) ==
    SelectSeq([j \in 1..Len(adds) |-> <<adds[j].status, adds[j].value, j - 1>>],
              LAMBDA d : IsAdded(d[1]))
RankingRecords(adds) ==
    [j \in 1..Len(adds) |-> <<adds[j].status, adds[j].value, j - 1>>]

\* new_sols += 1 for each status in (NEW, IMPROVE_EXISTING).
NewSols(adds) == Cardinality({j \in 1..Len(adds) : IsAdded(adds[j].status)})

\* indices = [d[2] for d in ranking_data]
Indices(ranking_data) ==
    [r \in 1..Len(ranking_data) |-> ranking_data[r][3]]

\* solutions[indices], with solutions[i] the sample named i + 1.
Reordered(solutions, indices) ==
    [r \in 1..Len(indices) |-> solutions[indices[r] + 1]]

\* num_parents = new_sols if selection_rule == "filter" else self._num_parents
NumParentsFixed(selection_rule, new_sols, num_parents) == num_parents
NumParents(selection_rule, new_sols, num_parents) ==
    IF selection_rule = "filter" THEN new_sols ELSE num_parents

\* [value for status, value, i in ranking_data]
RankingStatuses(ranking_data) ==
    [r \in 1..Len(ranking_data) |-> ranking_data[r][1]]
RankingValues(ranking_data) ==
    [r \in 1..Len(ranking_data) |-> ranking_data[r][2]]

\* ImprovementEmitter._check_restart
_check_restart_never(restart_rule, num_parents) == FALSE
_check_restart_any_rule(restart_rule, num_parents) == num_parents = 0
_check_restart(restart_rule, num_parents) ==
    IF restart_rule = "no_improvement" THEN num_parents = 0 ELSE FALSE

\* opt.check_stop(...) or self._check_restart(new_sols)
NeedsRestartBoth(stop, restart_rule, new_sols) ==
    stop /\ _check_restart(restart_rule, new_sols)
NeedsRestart(stop, restart_rule, new_sols) ==
    stop \/ _check_restart(restart_rule, new_sols)

\* The calls tell() makes on its collaborators, in the order of its
\* statements: the loop of lines 154-159, lines 168 and 171, lines 173-174.
TellCallsResetFirst(addCalls, optCalls, resetCalls) ==
    addCalls \o resetCalls \o optCalls
TellCalls(addCalls, optCalls, resetCalls) ==
    addCalls \o optCalls \o resetCalls

\* What tell() hands to the optimizer before it asks check_stop.
ToldToOpt(s, lens, adds) ==
    LET ranking_data == SortReverse(RankingRecords(adds))
        solutions == [j \in 1..lens.solutions |-> j]
    IN  [solutions |-> Reordered(solutions, Indices(ranking_data)),
         num_parents |-> NumParents(s._selection_rule, NewSols(adds), s._num_parents),
         values |-> RankingValues(ranking_data)]

\* The whole of tell(): adds are the answers of Archive.add in call order,
\* stop the answer of Optimizer.check_stop, elite that of get_random_elite.
EmitterTell(s, o, lens, adds, stop, elite) ==
    LET records == RankingRecords(adds)
        new_sols == NewSols(adds)
        ranking_data == SortReverse(records)
        indices == Indices(ranking_data)
        told == ToldToOpt(s, lens, adds)
        restart == NeedsRestart(stop, s._restart_rule, new_sols)
        new_x0 == elite[1]
        addCalls == [j \in 1..Len(adds) |-> Call("archive.add", j - 1)]
        optCalls == <<Call("opt.tell", [solutions |-> told.solutions,
                                        num_parents |-> told.num_parents]),
                      Call("opt.check_stop", told.values)>>
        resetCalls == IF restart
                      THEN <<Call("archive.get_random_elite", elite),
                             Call("opt.reset", new_x0)>>
                      ELSE <<>>
    IN  [pc |-> "ready",
         self |-> [s EXCEPT !._restarts = IF restart THEN @ + 1 ELSE @],
         opt |-> [o EXCEPT !.mean = IF restart THEN new_x0 ELSE @],
         last |-> [op |-> "tell", raised |-> NoError,
                   calls |-> TellCalls(addCalls, optCalls, resetCalls),
                   returned |-> <<>>, lens |-> lens,
                   records |-> records, ranking_data |-> ranking_data,
                   indices |-> indices, new_sols |-> new_sols,
                   num_parents |-> told.num_parents, stop |-> stop,
                   restarted |-> restart]]

\* ------------------------------------------------------- inputs of tell
\* The lengths of the four sequences a caller passes for a batch of n: all
\* of length n, with or without metadata, or one of them one element short.
TellLens(n) ==
    LET full == [solutions |-> n, objective_values |-> n,
                 behavior_values |-> n, metadata |-> NoneInt]
    IN  {full, [full EXCEPT !.metadata = n]}
          \cup {[full EXCEPT ![f] = n - 1] :
                   f \in {"solutions", "objective_values",
                          "behavior_values", "metadata"}}

\* get_random_elite is called, and answers, only when tell() restarts.
NoElite == <<None, None, None>>
EliteAnswers(restart) == IF restart THEN Elites ELSE {NoElite}

AddSeqs(k) == [1..k -> AddResults]

\* --------------------------------------------------------- one emitter
Init ==
    /\ pc = [e \in Emitters |-> "unbuilt"]
    /\ self = [e \in Emitters |-> NoSelf]
    /\ opt = [e \in Emitters |-> NoOpt]
    /\ last = [e \in Emitters |-> NoLast]
    /\ ctor = [e \in Emitters |-> NoArgs]
    /\ outstanding = [e \in Emitters |-> 0]
    /\ twin = FALSE

\* Emitter e becomes what a call made of it (computed once).
Put(e, result) ==
    \E r \in {result} :
        /\ pc' = [pc EXCEPT ![e] = r.pc]
        /\ self' = [self EXCEPT ![e] = r.self]
        /\ opt' = [opt EXCEPT ![e] = r.opt]
        /\ last' = [last EXCEPT ![e] = r.last]

Construct(e) ==
    /\ pc[e] = "unbuilt"
    /\ \E args \in CtorArgs, reported \in BatchSizes :
          /\ Put(e, EmitterInit(args, reported))
          /\ ctor' = [ctor EXCEPT ![e] = args]
    /\ UNCHANGED <<outstanding, twin>>

\* A call of ask() on emitter e, which the code accepts in any state.
AskCall(e) ==
    /\ pc[e] = "ready"
    /\ last[e].op # "tell"
    /\ Put(e, EmitterAsk(self[e], opt[e]))
    /\ UNCHANGED <<ctor, twin>>

Ask(e) == AskCall(e) /\ UNCHANGED outstanding

\* A call of tell() on emitter e with sequences of the lengths in lenses.
TellCall(e, lenses) ==
    /\ pc[e] = "ready"
    /\ last[e].op # "tell"
    /\ self[e]._restarts < MaxRestarts
    /\ \E lens \in lenses :
       \E adds \in AddSeqs(ZipLen(lens)) :
       \E stop \in BOOLEAN :
       \E elite \in EliteAnswers(NeedsRestart(stop, self[e]._restart_rule,
                                              NewSols(adds))) :
          Put(e, EmitterTell(self[e], opt[e], lens, adds, stop, elite))
    /\ UNCHANGED <<ctor, twin>>

Tell(e) ==
    /\ pc[e] = "ready"
    /\ TellCall(e, TellLens(self[e]._batch_size))
    /\ UNCHANGED outstanding

\* tell() returns None: its locals (ranking_data, indices, new_sols, ...)
\* are gone, the objects stay as tell() left them.
Return(e) ==
    /\ last[e].op = "tell"
    /\ last' = [last EXCEPT ![e] = [NoLast EXCEPT !.op = "returned"]]
    /\ UNCHANGED <<pc, self, opt, ctor, outstanding, twin>>

Next == Construct(1) \/ Ask(1) \/ Tell(1) \/ Return(1)

Spec == Init /\ [][Next]_vars

\* ------------------------------------------------- counting the batches
\* The same calls with the batches counted: outstanding is the number of
\* ask() calls minus the number of tell() calls.  Up to two batches are
\* asked without a tell() and one tell() is made with nothing asked; tell()
\* is given full-length sequences without metadata.
ProtocolLens(n) == {lens \in TellLens(n) : ZipLen(lens) = n /\ lens.metadata = NoneInt}

ProtocolAsk(e) ==
    /\ outstanding[e] < 2
    /\ AskCall(e)
    /\ outstanding' = [outstanding EXCEPT ![e] = @ + 1]

ProtocolTell(e) ==
    /\ pc[e] = "ready"
    /\ outstanding[e] >= 0
    /\ TellCall(e, ProtocolLens(self[e]._batch_size))
    /\ outstanding' = [outstanding EXCEPT ![e] = @ - 1]

ProtocolNext == Construct(1) \/ ProtocolAsk(1) \/ ProtocolTell(1) \/ Return(1)

ProtocolSpec == Init /\ [][ProtocolNext]_vars

\* ---------------------------------------------------------- two emitters
\* Two emitters constructed from the same x0, sigma0, rules and batch size
\* over archives in the same state, called in lockstep by one caller.  The
\* Optimizer is deterministic: two of them constructed with the same seed
\* (not None) and called alike answer alike, which is what twin records.
PairSeeds ==
    {<<sd, sd>> : sd \in {0, MaxSeed, NoneInt}} \cup {<<0, NoneInt>>}

PutBoth(results) ==
    \E r \in {results} :
        /\ pc' = [e \in Emitters |-> r[e].pc]
        /\ self' = [e \in Emitters |-> r[e].self]
        /\ opt' = [e \in Emitters |-> r[e].opt]
        /\ last' = [e \in Emitters |-> r[e].last]

\* Both optimizers got a seed, and the same one.
SameSeeded(o1, o2) ==
    o1.built /\ o2.built /\ o1.seed # NoneInt /\ o1.seed = o2.seed

ConstructPair ==
    /\ \A e \in Emitters : pc[e] = "unbuilt"
    /\ \E args \in CtorArgs, seeds \in PairSeeds, reported \in BatchSizes :
          args.seed = seeds[1] /\
          LET a == [e \in Emitters |-> [args EXCEPT !.seed = seeds[e]]]
              r == [e \in Emitters |-> EmitterInit(a[e], reported)]
          IN  /\ PutBoth(r)
              /\ ctor' = a
              /\ twin' = SameSeeded(r[1].opt, r[2].opt)
    /\ UNCHANGED outstanding

AskPair ==
    /\ \A e \in Emitters : pc[e] = "ready" /\ last[e].op # "tell"
    /\ PutBoth([e \in Emitters |-> EmitterAsk(self[e], opt[e])])
    /\ UNCHANGED <<ctor, outstanding, twin>>

\* Twins that were just told the same give the same check_stop answer;
\* otherwise the two answers are independent.
StopAnswers(alike) ==
    IF alike THEN {[e \in Emitters |-> b] : b \in BOOLEAN}
    ELSE [Emitters -> BOOLEAN]

\* The pair is told full batches of at most two solutions.
PairLens(n) == {lens \in TellLens(n) : ZipLen(lens) = n /\ n <= 2}

\* The same results go to both emitters and their archives answer alike,
\* also when both draw an elite.
TellPair ==
    /\ \A e \in Emitters :
          /\ pc[e] = "ready"
          /\ last[e].op # "tell"
          /\ self[e]._restarts < MaxRestarts
    /\ \E lens \in PairLens(self[1]._batch_size) :
       \E adds \in AddSeqs(ZipLen(lens)) :
       \E alike \in {twin /\ ToldToOpt(self[1], lens, adds)
                                = ToldToOpt(self[2], lens, adds)} :
       \E stop \in StopAnswers(alike) :
       \E restart \in {[e \in Emitters |->
                          NeedsRestart(stop[e], self[e]._restart_rule,
                                       NewSols(adds))]} :
       \E drawn \in EliteAnswers(\E e \in Emitters : restart[e]) :
          /\ PutBoth([e \in Emitters |->
                        EmitterTell(self[e], opt[e], lens, adds, stop[e],
                                    IF restart[e] THEN drawn ELSE NoElite)])
          /\ twin' = (alike /\ restart[1] = restart[2])
    /\ UNCHANGED <<ctor, outstanding>>

ReturnPair ==
    /\ \A e \in Emitters : last[e].op = "tell"
    /\ last' = [e \in Emitters |-> [NoLast EXCEPT !.op = "returned"]]
    /\ UNCHANGED <<pc, self, opt, ctor, outstanding, twin>>

PairNext == ConstructPair \/ AskPair \/ TellPair \/ ReturnPair

PairSpec == Init /\ [][PairNext]_vars

\* ============================================================== claims
\* What a finished tell() call shows to its caller and its collaborators.
Told(e) == last[e].op = "tell"
TellStep(e) == last[e].op # "tell" /\ last'[e].op = "tell"
CallsTo(c, fn) == SelectSeq(c, LAMBDA x : x.fn = fn)
\* The arguments of the one Optimizer.tell call of the finished tell().
OptTellArg(e) == CallsTo(last[e].calls, "opt.tell")[1].arg
\* The answer Archive.add gave for the sample named sol.
StatusOf(e, sol) == last[e].records[sol][1]
ValueOf(e, sol) == last[e].records[sol][2]
\* 1 for NEW, 2 for IMPROVE_EXISTING, 3 for NOT_ADDED.
StatusClass(status) ==
    IF status = AddStatus["NEW"] THEN 1
    ELSE IF status = AddStatus["IMPROVE_EXISTING"] THEN 2 ELSE 3
\* How many answers of Archive.add were NEW or IMPROVE_EXISTING.
AddedCount(l) ==
    Cardinality({j \in 1..Len(l.records) :
                   StatusClass(l.records[j][1]) \in {1, 2}})
PolicyFires(e, l) ==
    self[e]._restart_rule = "no_improvement" /\ AddedCount(l) = 0
\* The finished tell() restarted once: one elite drawn, one reset with its
\* solution, both after the check_stop call.
OneRestart(l) ==
    /\ Len(CallsTo(l.calls, "archive.get_random_elite")) = 1
    /\ Len(CallsTo(l.calls, "opt.reset")) = 1
    /\ CallsTo(l.calls, "archive.get_random_elite")[1].arg \in Elites
    /\ CallsTo(l.calls, "opt.reset")[1].arg =
          CallsTo(l.calls, "archive.get_random_elite")[1].arg[1]
NoRestart(l) ==
    /\ Len(CallsTo(l.calls, "archive.get_random_elite")) = 0
    /\ Len(CallsTo(l.calls, "opt.reset")) = 0

\* C1: in every tell() the solutions forwarded to Optimizer.tell have every
\* NEW solution before every IMPROVE_EXISTING one and those before every
\* NOT_ADDED one; among equal statuses the values are non-increasing.
C1_ForwardedOrder ==
    \A e \in Emitters : Told(e) =>
        LET f == OptTellArg(e).solutions
        IN  \A r1, r2 \in 1..Len(f) : r1 < r2 =>
              /\ StatusClass(StatusOf(e, f[r1])) <= StatusClass(StatusOf(e, f[r2]))
              /\ StatusOf(e, f[r1]) = StatusOf(e, f[r2])
                    => ValueOf(e, f[r1]) >= ValueOf(e, f[r2])

\* A tell() of two solutions, the first NOT_ADDED and the second NEW, which
\* the ranking has to swap.
C1_Witness ==
    /\ Told(1)
    /\ Len(last[1].records) = 2
    /\ StatusOf(1, 1) = AddStatus["NOT_ADDED"]
    /\ StatusOf(1, 2) = AddStatus["NEW"]
    /\ OptTellArg(1).solutions = <<2, 1>>

\* C2: with restart_rule no_improvement and either selection rule, a tell()
\* in which no solution is NEW or IMPROVE_EXISTING restarts exactly once:
\* one get_random_elite, one Optimizer.reset with the solution it returned,
\* and the restart counter one higher.
C2_NoImprovementRestarts ==
    [][\A e \in Emitters :
         (/\ TellStep(e)
          /\ self[e]._restart_rule = "no_improvement"
          /\ AddedCount(last'[e]) = 0)
         => /\ OneRestart(last'[e])
            /\ self'[e]._restarts = self[e]._restarts + 1
            /\ opt'[e].mean =
                  CallsTo(last'[e].calls, "archive.get_random_elite")[1].arg[1]]_vars

\* A tell() of a full batch, none added, check_stop answering no, under the
\* mu selection rule and no_improvement: it restarted.
C2_Witness ==
    /\ Told(1)
    /\ self[1]._restart_rule = "no_improvement"
    /\ self[1]._selection_rule = "mu"
    /\ Len(last[1].records) = 2
    /\ AddedCount(last[1]) = 0
    /\ ~last[1].stop
    /\ last[1].restarted
    /\ self[1]._restarts = 1

\* C3: with restart_rule basic a tell() restarts (Optimizer.reset, counter
\* one higher) if and only if Optimizer.check_stop answered true in it, also
\* when no solution was added.
C3_BasicOnlyCheckStop ==
    [][\A e \in Emitters :
         (TellStep(e) /\ self[e]._restart_rule = "basic")
         => IF last'[e].stop
            THEN /\ OneRestart(last'[e])
                 /\ self'[e]._restarts = self[e]._restarts + 1
            ELSE /\ NoRestart(last'[e])
                 /\ self'[e]._restarts = self[e]._restarts
                 /\ opt'[e] = opt[e]]_vars

\* A basic-rule tell() of a full batch with nothing added and check_stop
\* answering no: no restart.
C3_Witness ==
    /\ Told(1)
    /\ self[1]._restart_rule = "basic"
    /\ Len(last[1].records) = 2
    /\ AddedCount(last[1]) = 0
    /\ ~last[1].stop
    /\ NoRestart(last[1])
    /\ self[1]._restarts = 0

\* C4: with selection_rule filter the num_parents given to Optimizer.tell
\* is the number of solutions of that call that are NEW or IMPROVE_EXISTING.
C4_FilterNumParents ==
    \A e \in Emitters :
        (Told(e) /\ self[e]._selection_rule = "filter")
        => OptTellArg(e).num_parents = AddedCount(last[e])

\* A filter tell() after a restart in which one of two solutions is added.
C4_Witness ==
    /\ Told(1)
    /\ self[1]._selection_rule = "filter"
    /\ Len(last[1].records) = 2
    /\ AddedCount(last[1]) = 1
    /\ OptTellArg(1).num_parents = 1
    /\ ~last[1].restarted
    /\ self[1]._restarts >= 1

\* C5: with selection_rule mu the num_parents given to Optimizer.tell is
\* floor(batch_size / 2) in every tell(), whatever the archive answered and
\* whether or not the emitter restarted before.
C5_MuNumParents ==
    \A e \in Emitters :
        (pc[e] = "ready" /\ self[e]._selection_rule = "mu")
        => /\ self[e]._num_parents = opt[e].batch_size \div 2
           /\ Told(e) => OptTellArg(e).num_parents = opt[e].batch_size \div 2

\* A mu tell() after a restart, batch of 2, both solutions added: one parent.
C5_Witness ==
    /\ Told(1)
    /\ self[1]._selection_rule = "mu"
    /\ opt[1].batch_size = 2
    /\ AddedCount(last[1]) = 2
    /\ OptTellArg(1).num_parents = 1
    /\ ~last[1].restarted
    /\ self[1]._restarts >= 1

\* C6: the restart counter starts at 0; a tell() raises it by exactly 1,
\* with one get_random_elite and one Optimizer.reset, when check_stop
\* answered true or the emitter-side policy fires (or both), and leaves it
\* alone, with no reset, otherwise.
C6_RestartCounter ==
    [][\A e \in Emitters :
         /\ (pc[e] = "unbuilt" /\ pc'[e] = "ready") => self'[e]._restarts = 0
         /\ TellStep(e) =>
              IF last'[e].stop \/ PolicyFires(e, last'[e])
              THEN /\ OneRestart(last'[e])
                   /\ self'[e]._restarts = self[e]._restarts + 1
              ELSE /\ NoRestart(last'[e])
                   /\ self'[e]._restarts = self[e]._restarts
         /\ (pc[e] = "ready" /\ ~TellStep(e))
              => self'[e]._restarts = self[e]._restarts]_vars

\* Both triggers in one tell(): check_stop true and nothing added under
\* no_improvement; the counter went from 0 to 1.
C6_Witness ==
    /\ Told(1)
    /\ last[1].stop
    /\ PolicyFires(1, last[1])
    /\ Len(last[1].records) = 2
    /\ OneRestart(last[1])
    /\ self[1]._restarts = 1

\* The rule arguments of a constructor call that are outside their sets.
OffendingFields(args) ==
    {f \in {"selection_rule"} : args.selection_rule \notin {"mu", "filter"}}
      \cup {f \in {"restart_rule"} :
              args.restart_rule \notin {"basic", "no_improvement"}}

\* C7: a constructor call with selection_rule outside {mu, filter} or
\* restart_rule outside {basic, no_improvement} raises an error that names
\* an offending field and its value, before any Optimizer is constructed or
\* reset.
C7_InvalidRuleRejected ==
    \A e \in Emitters :
        (pc[e] # "unbuilt" /\ OffendingFields(ctor[e]) # {})
        => /\ pc[e] = "failed"
           /\ last[e].raised # NoError
           /\ last[e].raised[1] = "Invalid"
           /\ last[e].raised[2] \in OffendingFields(ctor[e])
           /\ last[e].raised[3] = ctor[e][last[e].raised[2]]
           /\ ~opt[e].built
           /\ last[e].calls = <<>>

\* A constructor call with a valid selection_rule and an invalid
\* restart_rule: it raised, naming restart_rule.
C7_Witness ==
    /\ pc[1] = "failed"
    /\ ctor[1].selection_rule = "filter"
    /\ last[1].raised = <<"Invalid", "restart_rule", "bogus">>

\* indices holds each of 0..batch_size-1 once.
IsPermutationOfBatch(e, indices) ==
    /\ Len(indices) = self[e]._batch_size
    /\ {indices[r] : r \in 1..Len(indices)} = 0..(self[e]._batch_size - 1)

\* C8 as stated: for every tell() the number of ranking records equals
\* batch_size and the index list is a permutation of 0..batch_size-1.
C8_EveryTellRanksWholeBatch ==
    \A e \in Emitters : Told(e) =>
        /\ Len(last[e].records) = self[e]._batch_size
        /\ IsPermutationOfBatch(e, last[e].indices)

\* The caller passed batch_size solutions, objective values and behavior
\* values, and metadata either not at all or for each of them.
FullLens(e, lens) ==
    /\ lens.solutions = self[e]._batch_size
    /\ lens.objective_values = self[e]._batch_size
    /\ lens.behavior_values = self[e]._batch_size
    /\ lens.metadata \in {NoneInt, self[e]._batch_size}

\* C8, amended: for every tell() that is given batch_size entries in each of
\* its sequences, the number of ranking records equals batch_size, the index
\* list is a permutation of 0..batch_size-1 and every asked solution is
\* forwarded to Optimizer.tell exactly once.
C8_FullTellRanksWholeBatch ==
    \A e \in Emitters : (Told(e) /\ FullLens(e, last[e].lens)) =>
        /\ Len(last[e].records) = self[e]._batch_size
        /\ IsPermutationOfBatch(e, last[e].indices)
        /\ LET f == OptTellArg(e).solutions
           IN  /\ Len(f) = self[e]._batch_size
               /\ {f[r] : r \in 1..Len(f)} = 1..self[e]._batch_size

\* A full tell() of two solutions whose ranking reverses them.
C8_Witness ==
    /\ Told(1)
    /\ FullLens(1, last[1].lens)
    /\ self[1]._batch_size = 2
    /\ last[1].indices = <<1, 0>>
    /\ last[1].lens.metadata = 2

\* C9: the emitter's batch_size is what the Optimizer reports, from the
\* constructor on and also when the caller requested none; no ask(), tell()
\* or restart changes it; every ask() returns exactly batch_size solutions.
C9_BatchSizeFixed ==
    [][\A e \in Emitters :
         /\ pc'[e] = "ready" =>
              /\ self'[e]._batch_size = opt'[e].batch_size
              /\ self'[e]._batch_size \in BatchSizes
         /\ pc[e] = "ready" => self'[e]._batch_size = self[e]._batch_size
         /\ last'[e].op = "ask" =>
              Len(last'[e].returned) = self'[e]._batch_size]_vars

\* An ask() after a restart on an emitter constructed without a batch size:
\* it returned the two solutions of the Optimizer's own batch size.
C9_Witness ==
    /\ last[1].op = "ask"
    /\ ctor[1].batch_size = NoneInt
    /\ self[1]._restarts >= 1
    /\ self[1]._batch_size = 2
    /\ Len(last[1].returned) = 2

\* Both emitters were constructed with the same arguments and a seed.
SameConstruction ==
    /\ \A e \in Emitters : pc[e] = "ready"
    /\ ctor[1] = ctor[2]
    /\ ctor[1].seed # NoneInt
    /\ self[1]._x0 = self[2]._x0
    /\ self[1]._sigma0 = self[2]._sigma0

\* C10: two emitters constructed independently with the same seed (not
\* None), x0, sigma0 and rules, and driven through the same ask/tell cycles
\* against archives that answer alike, give their Optimizers the same
\* derived seed, forward the same ranking and parent count in every cycle
\* and restart in the same cycles.
C10_SameSeedSameRun ==
    SameConstruction =>
        /\ opt[1].seed = opt[2].seed
        /\ opt[1].seed # NoneInt
        /\ last[1].op = last[2].op
        /\ last[1].calls = last[2].calls
        /\ last[1].indices = last[2].indices
        /\ last[1].num_parents = last[2].num_parents
        /\ last[1].restarted = last[2].restarted
        /\ self[1]._restarts = self[2]._restarts
        /\ opt[1] = opt[2]

\* Two emitters with the same seed in their second restart, told a batch
\* whose ranking reverses it.
C10_Witness ==
    /\ SameConstruction
    /\ Told(1) /\ Told(2)
    /\ last[1].indices = <<1, 0>>
    /\ last[1].restarted /\ last[2].restarted
    /\ self[1]._restarts = 2 /\ self[2]._restarts = 2

\* An ask() made while a batch is outstanding, a tell() made while none is.
AskWhileOutstanding(e) ==
    /\ outstanding[e] >= 1
    /\ outstanding'[e] = outstanding[e] + 1
TellWithoutAsk(e) ==
    /\ outstanding[e] <= 0
    /\ outstanding'[e] = outstanding[e] - 1
\* The call just made was refused and touched nothing.
Rejected(e) ==
    /\ last'[e].raised # NoError
    /\ last'[e].calls = <<>>
    /\ self'[e] = self[e]
    /\ opt'[e] = opt[e]

\* C11 as stated: at most one batch is outstanding per emitter, because an
\* ask() made while a batch is outstanding and a tell() made while none is
\* are rejected as usage errors and change neither archive, optimizer nor
\* restart counter.
C11_ProtocolEnforced ==
    [][\A e \in {1} :
          (AskWhileOutstanding(e) \/ TellWithoutAsk(e)) => Rejected(e)]_vars

\* The argument of the one Optimizer.check_stop call of the finished tell().
CheckStopArg(e) == CallsTo(last[e].calls, "opt.check_stop")[1].arg
\* The values Archive.add returned, in the order of the batch.
BatchOrderValues(e) ==
    [j \in 1..Len(last[e].records) |-> last[e].records[j][2]]

\* C12 as stated: in every tell() the values passed to Optimizer.check_stop
\* are in original batch order, the i-th being the value Archive.add
\* returned for the i-th solution.
C12_CheckStopBatchOrder ==
    Told(1) => CheckStopArg(1) = BatchOrderValues(1)

\* C12, amended: in every tell() the values passed to Optimizer.check_stop
\* are in rank order, one per ranked solution: the r-th is the value
\* Archive.add returned for the solution forwarded to Optimizer.tell at
\* rank r.
C12_CheckStopRankOrder ==
    Told(1) =>
        /\ Len(CheckStopArg(1)) = Len(last[1].records)
        /\ Len(OptTellArg(1).solutions) = Len(last[1].records)
        /\ \A r \in 1..Len(CheckStopArg(1)) :
              CheckStopArg(1)[r] = ValueOf(1, OptTellArg(1).solutions[r])

\* A tell() whose first solution was not added with value 0 and whose
\* second was NEW with value 1: check_stop is given the values as <<1, 0>>.
C12_Witness ==
    /\ Told(1)
    /\ BatchOrderValues(1) = <<0, 1>>
    /\ StatusClass(StatusOf(1, 1)) = 3
    /\ StatusClass(StatusOf(1, 2)) = 1
    /\ CheckStopArg(1) = <<1, 0>>

\* C13: when two solutions of a batch have equal status and equal value,
\* the ranking forwarded to Optimizer.tell places the one with the smaller
\* original index first.
C13_TiesAscending ==
    Told(1) =>
        LET f == OptTellArg(1).solutions
        IN  \A r1, r2 \in 1..Len(f) :
              (/\ r1 < r2
               /\ StatusOf(1, f[r1]) = StatusOf(1, f[r2])
               /\ ValueOf(1, f[r1]) = ValueOf(1, f[r2]))
                 => f[r1] < f[r2]

\* The positions in the call log of the finished tell() at which fn is
\* called.
PositionsOf(e, fn) ==
    {p \in 1..Len(last[e].calls) : last[e].calls[p].fn = fn}

ShortestLen(lens) ==
    LET given == {lens.solutions, lens.objective_values, lens.behavior_values}
                   \cup (IF lens.metadata = NoneInt THEN {} ELSE {lens.metadata})
    IN  CHOOSE m \in given : \A x \in given : m <= x

\* C15: tell() performs no length validation: when objective_values,
\* behavior_values or metadata is shorter than solutions, with k the
\* shortest length, exactly the first k solutions are added to the archive,
\* only those k are ranked and forwarded to Optimizer.tell, and no error is
\* raised.
C15_ShortArgumentsTruncate ==
    (Told(1) /\ ShortestLen(last[1].lens) < last[1].lens.solutions) =>
        LET k == ShortestLen(last[1].lens)
            f == OptTellArg(1).solutions
        IN  /\ last[1].raised = NoError
            /\ CallsTo(last[1].calls, "archive.add") =
                  [j \in 1..k |-> Call("archive.add", j - 1)]
            /\ Len(last[1].ranking_data) = k
            /\ Len(f) = k
            /\ {f[r] : r \in 1..k} = 1..k

\* A tell() given two solutions and one objective value: one add, one
\* solution forwarded.
C15_Witness ==
    /\ Told(1)
    /\ last[1].lens.solutions = 2
    /\ last[1].lens.objective_values = 1
    /\ last[1].lens.behavior_values = 2
    /\ last[1].raised = NoError
    /\ Len(CallsTo(last[1].calls, "archive.add")) = 1
    /\ OptTellArg(1).solutions = <<1>>

\* A step in which ask() is called on emitter e and returns.
AskStep(e) == pc[e] = "ready" /\ last'[e].op = "ask"

\* C16: ask() changes no emitter state: the restart counter, the fixed
\* num_parents, the two rules, batch_size, x0 and sigma0 are the same
\* after the call as before it, and ask() makes no call to the archive;
\* its one call is Optimizer.ask.
C16_AskFrame ==
    [][\A e \in {1} :
          AskStep(e) =>
              /\ self'[e] = self[e]
              /\ pc'[e] = pc[e]
              /\ last'[e].raised = NoError
              /\ last'[e].calls = <<Call("opt.ask", "bounds")>>
              /\ \A p \in 1..Len(last'[e].calls) :
                    last'[e].calls[p].fn \notin
                        {"archive.add", "archive.get_random_elite"}]_vars

\* An ask() answered with two solutions by a filter emitter that has
\* restarted once: the counter still reads 1.
C16_Witness ==
    /\ last[1].op = "ask"
    /\ Len(last[1].returned) = 2
    /\ self[1]._restarts = 1
    /\ self[1]._selection_rule = "filter"
    /\ self[1]._num_parents = NoneInt
    /\ self[1]._batch_size = 2

\* C17: when selection_rule is filter, the first num_parents solutions of
\* the reordered batch forwarded to Optimizer.tell are exactly the
\* solutions whose status is NEW or IMPROVE_EXISTING.
C17_FilterParentsAreAdded ==
    (Told(1) /\ self[1]._selection_rule = "filter") =>
        LET f == OptTellArg(1).solutions
            n == OptTellArg(1).num_parents
        IN  /\ n \in 0..Len(f)
            /\ {f[r] : r \in 1..n} =
                  {sol \in 1..Len(last[1].records) :
                     StatusClass(StatusOf(1, sol)) \in {1, 2}}

\* A filter emitter told a batch whose first solution was not added and
\* whose second improved an elite: the one parent is the second solution.
C17_Witness ==
    /\ Told(1)
    /\ self[1]._selection_rule = "filter"
    /\ Len(last[1].records) = 2
    /\ StatusClass(StatusOf(1, 1)) = 3
    /\ StatusClass(StatusOf(1, 2)) = 2
    /\ OptTellArg(1).num_parents = 1
    /\ OptTellArg(1).solutions = <<2, 1>>

====
